---------------------------- MODULE Spec2Model ----------------------------
(***************************************************************************)
(* Model of the Resseltrafiken timetable application.                      *)
(*                                                                         *)
(*   - determineTimetableFiles (js/renderer.js): which timetable file a    *)
(*     line uses on a date, from the line's season_mapping.                *)
(*   - TimeHandler.processScheduleTimes (js/timehandler.js): the bounded,  *)
(*     deduplicated, ordered list of departures shown for a stop.          *)
(*   - the service worker (service-worker.js): activation, the version     *)
(*     check, and the fetch handler with its two cache stores.             *)
(*   - Renderer.createStopRow (js/renderer.js): the highlight of the next  *)
(*     departure in a stop's row.                                          *)
(*   - the page (js/renderer.js): loadAllTimetables, the midnight check    *)
(*     and the four interval timers.                                       *)
(*                                                                         *)
(* Dates are instants counted in hours since 00:00 UTC of day 0.  Day 0 is *)
(* a Friday.  A JavaScript Date built from a date-only string              *)
(* ("2026-04-19") is 00:00 UTC of that day; getDay() reads the local       *)
(* calendar day and toISOString() the UTC calendar day.                    *)
(***************************************************************************)
EXTENDS Integers, Sequences, FiniteSets, TLC

VARIABLES
    configData,     \* timetableData.config: [sjo |-> season list, city |-> season list]
    date,           \* the Date handed to determineTimetableFiles
    result,         \* the object determineTimetableFiles returned
    phase,          \* "config": configuration loaded, "resolved": a result was returned
    times,          \* the time objects handed to processScheduleTimes for one stop
    maxDepartures,  \* config.maxVisibleDepartures
    now,            \* minutes since local midnight at the latest display refresh
    output,         \* what processScheduleTimes returned at that refresh
    rendered,       \* whether a refresh has run
    dropped,        \* history: entries shown at an earlier refresh and then no longer
    doc,            \* the pathname the page's requests are for
    stores,         \* CacheStorage: the caches in creation order, [name, entries]
    handlers,       \* the fetch events being handled, one record per event
    swState,        \* "installed", "activating", "claimed", "activated"; "off" elsewhere
    pendingDeletes, \* activation: names whose caches.delete has not resolved yet
    claimed,        \* whether self.clients.claim() has been called
    deletedCaches,  \* the names the running activate listener has deleted
    deployed,       \* the manifest.json the server serves
    manifest,       \* what the latest checkVersion fetched
    inbox,          \* the latest message each client got from the worker
    highlightStop,  \* whether the stop's row is the highlighted stop
    row,            \* the highlight class of each time element of the row
    pageDate,       \* the local calendar date of new Date()
    timetableData,  \* timetableData: today, tomorrow, lastUpdate
    cycles,         \* the loadAllTimetables calls, one record per call
    display,        \* the lines the page shows, and whether an error notice is shown
    timers,         \* timers: the interval id held for each kind
    intervals,      \* the interval tasks the browser runs, <<kind, id>>
    timerStarts     \* how often startAllTimers has run

resolverVars == <<configData, date, result, phase>>

timeVars == <<times, maxDepartures, now, output, rendered, dropped>>

versionVars == <<deployed, manifest, inbox>>

workerVars == <<doc, stores, handlers, swState, pendingDeletes, claimed, deletedCaches,
                deployed, manifest, inbox>>

rowVars == <<highlightStop, row>>

pageVars == <<pageDate, timetableData, cycles, display, timers, intervals, timerStarts>>

appVars == <<highlightStop, row, pageDate, timetableData, cycles, display, timers,
             intervals, timerStarts>>

vars == <<configData, date, result, phase, times, maxDepartures, now, output, rendered,
          dropped, doc, stores, handlers, swState, pendingDeletes, claimed, deletedCaches,
          deployed, manifest, inbox, highlightStop, row, pageDate, timetableData, cycles,
          display, timers, intervals, timerStarts>>

---------------------------------------------------------------------------
(* JavaScript values *)

Null == <<"null">>

Undefined == <<"undefined">>

\* !x for the values a file name or a season reference can take
Falsy(v) == v = Null \/ v = Undefined

---------------------------------------------------------------------------
(* Bounds of the model *)

\* season periods and target dates lie on the days 0..MaxDay
MaxDay == 2

HoursPerDay == 24

Days == 0..MaxDay

\* local wall-clock hours a target date is taken at
LocalHours == {0, 1, 2, 3, 12, 23}

\* the browser's offset from UTC in hours: Europe/Stockholm, CET and CEST
UtcOffsets == {1, 2}

---------------------------------------------------------------------------
(* Dates *)

Dates == [day : Days, hour : LocalHours, off : UtcOffsets]

\* Date.getTime(), in hours
GetTime(d) == d.day * HoursPerDay + d.hour - d.off

\* new Date("YYYY-MM-DD").getTime(), in hours: midnight UTC of that day
ParseDateOnly(day) == day * HoursPerDay

\* Date.getDay(): 0 = Sunday .. 6 = Saturday, of the local calendar day
GetDay(d) == (d.day + 5) % 7

\* date.toISOString().split('T')[0]: the UTC calendar day
IsoDateStr(d) == GetTime(d) \div HoursPerDay

DateValue(day) == <<"date", day>>

---------------------------------------------------------------------------
(* Season configuration documents *)

\* a files map: each key present names its own file of the season
FilesOf(name, keys) == [k \in keys |-> <<"file", name, k>>]

\* the season definitions a line's config may hold at one list position:
\* every period within Days, the file map complete or with the weekday
\* file only, no holiday rule or one listed date
SeasonDefs(name, allKeys) ==
    { [ start |-> s, end |-> e, files |-> FilesOf(name, ks), weekend_schedule |-> h ] :
        s \in Days, e \in Days, ks \in {allKeys, {"weekday"}},
        h \in {{}} \cup {{d} : d \in Days} }

ValidDefs(name, allKeys) == { d \in SeasonDefs(name, allKeys) : d.start <= d.end }

\* season_mapping lists of zero, one or two definitions
SeasonLists(allKeys) ==
    {<<>>}
    \cup { <<a>> : a \in ValidDefs("A", allKeys) }
    \cup { <<a, b>> : a \in ValidDefs("A", allKeys), b \in ValidDefs("B", allKeys) }

SjoKeys == {"weekday", "weekend"}

CityKeys == {"weekday", "saturday", "sunday"}

\* the other line's list while one line's list ranges over SeasonLists:
\* one season over all of Days, complete file map, no holiday rule
BaseList(allKeys) ==
    << [ start |-> 0, end |-> MaxDay, files |-> FilesOf("A", allKeys),
         weekend_schedule |-> {} ] >>

Configs ==
    { [sjo |-> l, city |-> BaseList(CityKeys)] : l \in SeasonLists(SjoKeys) }
    \cup { [sjo |-> BaseList(SjoKeys), city |-> l] : l \in SeasonLists(CityKeys) }

\* obj[key] of a JavaScript object: undefined when the key is absent
Prop(obj, key) == IF key \in DOMAIN obj THEN obj[key] ELSE Undefined

---------------------------------------------------------------------------
(* determineTimetableFiles *)

DayType(d) ==
    IF GetDay(d) = 6 THEN "saturday" ELSE IF GetDay(d) = 0 THEN "sunday" ELSE "weekday"

\* the comparison with its upper limit left out
InSeasonNoEnd(d, season) == GetTime(d) >= ParseDateOnly(season.start)

\* date >= seasonStart && date <= seasonEnd
InSeason(d, season) ==
    /\ GetTime(d) >= ParseDateOnly(season.start)
    /\ GetTime(d) <= ParseDateOnly(season.end)

\* !latest || seasonEnd > new Date(latest.period.end); seasons are list
\* positions, 0 for none
NextLatest(list, latest, i) ==
    IF latest = 0 \/ ParseDateOnly(list[i].end) > ParseDateOnly(list[latest].end)
    THEN i ELSE latest

\* the for..of loop over season_mapping from position i on: the season found
\* (with break) and the latest season seen up to there
RECURSIVE ScanSeasons(_, _, _, _)
ScanSeasons(list, d, i, latest) ==
    IF i > Len(list) THEN [season |-> 0, latest |-> latest]
    ELSE IF InSeason(d, list[i])
         THEN [season |-> i, latest |-> NextLatest(list, latest, i)]
         ELSE ScanSeasons(list, d, i + 1, NextLatest(list, latest, i))

\* dayType === "saturday" || dayType === "sunday" ? files.weekend : files.weekday
SjoFile(season, d) ==
    IF DayType(d) = "saturday" \/ DayType(d) = "sunday"
    THEN Prop(season.files, "weekend") ELSE Prop(season.files, "weekday")

\* the Sjöstadstrafiken part of the result
ResolveSjo(list, d) ==
    LET scan == ScanSeasons(list, d, 1, 0) IN
    IF scan.season # 0
    THEN [file |-> SjoFile(list[scan.season], d), expired |-> FALSE, expiryDate |-> Null]
    ELSE IF scan.latest # 0
    THEN [file |-> SjoFile(list[scan.latest], d), expired |-> TRUE,
          expiryDate |-> DateValue(list[scan.latest].end)]
    ELSE [file |-> Null, expired |-> FALSE, expiryDate |-> Null]

\* season.holiday_rules.weekend_schedule.includes(dateStr)
IsHoliday(season, d) == IsoDateStr(d) \in season.weekend_schedule

\* cityLatestSeason.files[dayType] || cityLatestSeason.files.weekday
CityFallbackFile(season, d) ==
    IF Falsy(Prop(season.files, DayType(d)))
    THEN Prop(season.files, "weekday") ELSE Prop(season.files, DayType(d))

\* the Citylinjen part of the result
ResolveCity(list, d) ==
    LET scan == ScanSeasons(list, d, 1, 0) IN
    IF scan.season # 0 /\ IsHoliday(list[scan.season], d)
    THEN [file |-> Prop(list[scan.season].files, "sunday"), expired |-> FALSE,
          expiryDate |-> Null]
    ELSE IF scan.season # 0
    THEN [file |-> Prop(list[scan.season].files, DayType(d)), expired |-> FALSE,
          expiryDate |-> Null]
    ELSE IF scan.latest # 0
    THEN [file |-> CityFallbackFile(list[scan.latest], d), expired |-> TRUE,
          expiryDate |-> DateValue(list[scan.latest].end)]
    ELSE [file |-> Null, expired |-> FALSE, expiryDate |-> Null]

determineTimetableFiles(cfg, d) ==
    LET s == ResolveSjo(cfg.sjo, d)
        c == ResolveCity(cfg.city, d)
    IN  [ sjo |-> s.file, city |-> c.file,
          sjoExpired |-> s.expired, cityExpired |-> c.expired,
          sjoExpiryDate |-> s.expiryDate, cityExpiryDate |-> c.expiryDate ]

\* const result = { sjo: null, city: null, ... }
EmptyResult ==
    [ sjo |-> Null, city |-> Null, sjoExpired |-> FALSE, cityExpired |-> FALSE,
      sjoExpiryDate |-> Null, cityExpiryDate |-> Null ]

---------------------------------------------------------------------------
(* The resolver as a state machine: a configuration is loaded, a refresh   *)
(* cycle calls determineTimetableFiles for a date, the next cycle starts   *)
(* from the same configuration.                                            *)

\* the departure list of a page that has loaded nothing yet
TimesIdle ==
    /\ times = <<>>
    /\ maxDepartures = 0
    /\ now = 0
    /\ output = <<>>
    /\ rendered = FALSE
    /\ dropped = {}

\* a page without a service worker
WorkerIdle ==
    /\ doc = <<"", "", "">>
    /\ stores = <<>>
    /\ handlers = <<>>
    /\ swState = "off"
    /\ pendingDeletes = {}
    /\ claimed = FALSE
    /\ deletedCaches = {}
    /\ deployed = <<>>
    /\ manifest = <<>>
    /\ inbox = <<>>

\* a stop's row that has not been built
RowIdle ==
    /\ highlightStop = FALSE
    /\ row = <<>>

\* a page that loads no timetables and runs no timers
PageIdle ==
    /\ pageDate = <<>>
    /\ timetableData = <<>>
    /\ cycles = <<>>
    /\ display = <<>>
    /\ timers = <<>>
    /\ intervals = {}
    /\ timerStarts = 0

ResolverInit ==
    /\ configData \in Configs
    /\ date = [day |-> 0, hour |-> 0, off |-> 1]
    /\ result = EmptyResult
    /\ phase = "config"
    /\ TimesIdle
    /\ WorkerIdle
    /\ RowIdle
    /\ PageIdle

DetermineTimetableFiles ==
    /\ phase = "config"
    /\ \E d \in Dates :
        /\ date' = d
        /\ result' = determineTimetableFiles(configData, d)
    /\ phase' = "resolved"
    /\ UNCHANGED <<configData, timeVars, appVars, workerVars>>

\* the result is consumed; the configuration stays for the next cycle
NextCycle ==
    /\ phase = "resolved"
    /\ date' = [day |-> 0, hour |-> 0, off |-> 1]
    /\ result' = EmptyResult
    /\ phase' = "config"
    /\ UNCHANGED <<configData, timeVars, appVars, workerVars>>

ResolverNext == DetermineTimetableFiles \/ NextCycle

ResolverSpec == ResolverInit /\ [][ResolverNext]_vars

---------------------------------------------------------------------------
(* Properties of determineTimetableFiles *)

Lines == {"sjo", "city"}

SeasonList(line) == configData[line]

ResultFile(line) == result[line]

ResultExpired(line) == IF line = "sjo" THEN result.sjoExpired ELSE result.cityExpired

ResultExpiryDate(line) ==
    IF line = "sjo" THEN result.sjoExpiryDate ELSE result.cityExpiryDate

\* the calendar day lies in the period, both end days included
ContainsDay(season, day) == season.start <= day /\ day <= season.end

\* the calendar day lies after the period's first and before its last day
StrictlyInside(season, day) == season.start < day /\ day < season.end

\* the key of a line's file map for the date's weekday classification
ClassKey(line, d) ==
    IF line = "city" THEN DayType(d)
    ELSE IF DayType(d) = "weekday" THEN "weekday" ELSE "weekend"

\* the key of a line's weekend file
WeekendKey(line) == IF line = "city" THEN "sunday" ELSE "weekend"

\* the season the scan of the line's list stops at, 0 for none
ExactMatch(line) == ScanSeasons(SeasonList(line), date, 1, 0).season

C2_PeriodEndDaysAreExactMatch ==
    phase = "resolved" =>
        \A line \in Lines : \A i \in 1..Len(SeasonList(line)) :
            (date.day = SeasonList(line)[i].start \/ date.day = SeasonList(line)[i].end)
                => /\ ExactMatch(line) # 0
                   /\ ResultExpired(line) = FALSE

\* the seasons of a list with the latest period.end
LatestEnding(list) ==
    { j \in 1..Len(list) : \A k \in 1..Len(list) : list[k].end <= list[j].end }

\* C3: for a non-empty season list and a date outside every definition's
\* period the result is expired=true, expiryDate is the period.end of the
\* definition with the latest period.end, and the file is that definition's
\* file for the date's weekday classification, its weekday file when that
\* classification is absent from its file map.
C3_FallbackToLatestSeason ==
    phase = "resolved" =>
        \A line \in Lines :
            LET list == SeasonList(line) IN
            (/\ Len(list) > 0
             /\ \A i \in 1..Len(list) : ~ContainsDay(list[i], date.day))
            => /\ ResultExpired(line) = TRUE
               /\ \E j \in LatestEnding(list) :
                    /\ ResultExpiryDate(line) = DateValue(list[j].end)
                    /\ ResultFile(line) =
                         IF ClassKey(line, date) \in DOMAIN list[j].files
                         THEN list[j].files[ClassKey(line, date)]
                         ELSE list[j].files["weekday"]

\* C4: for each line, when the exact-match season lists the target date in
\* holiday_rules.weekend_schedule, the file is that season's weekend file with
\* expired=false, at every time of day on that date.
C4_HolidayUsesWeekendFile ==
    phase = "resolved" =>
        \A line \in Lines :
            (/\ ExactMatch(line) # 0
             /\ date.day \in SeasonList(line)[ExactMatch(line)].weekend_schedule)
            => /\ ResultFile(line) =
                    Prop(SeasonList(line)[ExactMatch(line)].files, WeekendKey(line))
               /\ ResultExpired(line) = FALSE

\* C5: when the periods of two or more definitions of one line contain the
\* target date, the file is taken from the one that comes first in the list.
C5_FirstContainingSeasonWins ==
    phase = "resolved" =>
        \A line \in Lines :
            LET list == SeasonList(line)
                containing == { i \in 1..Len(list) : ContainsDay(list[i], date.day) }
            IN  Cardinality(containing) >= 2 =>
                    LET first == CHOOSE i \in containing : \A k \in containing : i <= k
                    IN  ResultFile(line) \in
                            { Prop(list[first].files, ClassKey(line, date)),
                              Prop(list[first].files, WeekendKey(line)) }

---------------------------------------------------------------------------
(* TimeHandler: strings and numbers                                        *)
(*                                                                         *)
(* A time string is the sequence of its characters.  A JavaScript number   *)
(* is a record [nan, val]: NaN has nan = TRUE.                             *)

Digits == <<"0", "1", "2", "3", "4", "5", "6", "7", "8", "9">>

IsDigit(c) == \E i \in 1..10 : Digits[i] = c

DigitValue(c) == (CHOOSE i \in 1..10 : Digits[i] = c) - 1

Num(n) == [nan |-> FALSE, val |-> n]

NaN == [nan |-> TRUE, val |-> 0]

\* the decimal value of a sequence of digits
RECURSIVE Decimal(_)
Decimal(chars) ==
    IF chars = <<>> THEN 0
    ELSE Decimal(SubSeq(chars, 1, Len(chars) - 1)) * 10 + DigitValue(chars[Len(chars)])

\* Number(str) for a string of digits, colons and letters: "" is 0, digits
\* are their decimal value, anything else is NaN
ToNumber(chars) ==
    IF \A i \in 1..Len(chars) : IsDigit(chars[i]) THEN Num(Decimal(chars)) ELSE NaN

\* str.split(":"): the pieces between the colons
RECURSIVE SplitColon(_)
SplitColon(chars) ==
    IF \A i \in 1..Len(chars) : chars[i] # ":" THEN <<chars>>
    ELSE LET k == CHOOSE i \in 1..Len(chars) :
                      chars[i] = ":" /\ \A j \in 1..(i - 1) : chars[j] # ":"
         IN  <<SubSeq(chars, 1, k - 1)>> \o SplitColon(SubSeq(chars, k + 1, Len(chars)))

\* a + b and a * 60 of JavaScript numbers
Plus(a, b) == IF a.nan \/ b.nan THEN NaN ELSE Num(a.val + b.val)

Times60(a) == IF a.nan THEN NaN ELSE Num(a.val * 60)

\* TimeHandler.timeToMinutes: 0 for a missing or empty string, else
\* hours * 60 + minutes of the first two pieces; a missing piece is undefined
timeToMinutes(timeStr) ==
    IF timeStr = Undefined \/ timeStr = <<>> THEN Num(0)
    ELSE LET parts == SplitColon(timeStr)
             hours == ToNumber(parts[1])
             minutes == IF Len(parts) >= 2 THEN ToNumber(parts[2]) ELSE NaN
         IN  Plus(Times60(hours), minutes)

---------------------------------------------------------------------------
(* TimeHandler.processScheduleTimes *)

\* this.getDayNumber(now): the weekday (1 = Monday .. 7 = Sunday) of today
CurrentDay == 1

\* this.getDayNumber(tomorrow)
TomorrowDay == (CurrentDay % 7) + 1

\* timeObj.day and timeObj.dayOffset, computed from isToday when day is absent
EntryDay(timeObj) ==
    IF "day" \in DOMAIN timeObj THEN timeObj.day
    ELSE IF timeObj.isToday THEN CurrentDay ELSE TomorrowDay

EntryDayOffset(timeObj) ==
    IF "day" \in DOMAIN timeObj THEN timeObj.dayOffset
    ELSE IF timeObj.isToday THEN 0 ELSE 1

\* the three branches that compute diff from dayOffset, minutesSinceMidnight
\* and currentMinutes
DiffOf(dayOffset, minutesSinceMidnight, currentMinutes) ==
    IF minutesSinceMidnight.nan THEN NaN
    ELSE IF dayOffset = 0 /\ minutesSinceMidnight.val >= currentMinutes
    THEN Num(minutesSinceMidnight.val - currentMinutes)
    ELSE IF dayOffset = 0 /\ minutesSinceMidnight.val < currentMinutes
    THEN Num(minutesSinceMidnight.val - currentMinutes)
    ELSE Num((dayOffset * HoursPerDay * 60) + minutesSinceMidnight.val - currentMinutes)

\* an identifier made of the time string alone, without the weekday index
createUniqueTimeIdTimeOnly(day, time) == <<time>>

\* createUniqueTimeId: `${day}-${time}`, kept as the pair
createUniqueTimeId(day, time) == <<day, time>>

\* the object times.map builds for one timeObj
ProcessedTime(timeObj, currentMinutes) ==
    LET diff == DiffOf(EntryDayOffset(timeObj), timeToMinutes(timeObj.time), currentMinutes)
    IN  [ time |-> timeObj.time,
          day |-> EntryDay(timeObj),
          dayOffset |-> EntryDayOffset(timeObj),
          diff |-> diff,
          isPast |-> (~diff.nan /\ diff.val < 0),
          isToday |-> (EntryDayOffset(timeObj) = 0),
          uniqueId |-> createUniqueTimeId(EntryDay(timeObj), timeObj.time) ]

ProcessedTimes(timeObjs, currentMinutes) ==
    [i \in 1..Len(timeObjs) |-> ProcessedTime(timeObjs[i], currentMinutes)]

Abs(n) == IF n < 0 THEN -n ELSE n

\* the value Array.prototype.sort uses for the comparator's result: the
\* comparator of the first sort ("abs") is Math.abs(a.diff) - Math.abs(b.diff),
\* that of the second ("diff") is a.diff - b.diff; a NaN result counts as 0
SortCompare(mode, a, b) ==
    IF a.diff.nan \/ b.diff.nan THEN 0
    ELSE IF mode = "abs" THEN Abs(a.diff.val) - Abs(b.diff.val)
    ELSE a.diff.val - b.diff.val

\* whether the comparator is a consistent comparator for the elements
\* (ECMAScript): equality, less-than and greater-than are transitive
ConsistentComparator(seq, mode) ==
    \A i, j, k \in 1..Len(seq) :
        LET ab == SortCompare(mode, seq[i], seq[j])
            bc == SortCompare(mode, seq[j], seq[k])
            ac == SortCompare(mode, seq[i], seq[k])
        IN  /\ (ab = 0 /\ bc = 0) => ac = 0
            /\ (ab < 0 /\ bc < 0) => ac < 0
            /\ (ab > 0 /\ bc > 0) => ac > 0

\* x put into a sorted sequence behind every element it does not precede
RECURSIVE InsertSorted(_, _, _)
InsertSorted(sorted, x, mode) ==
    IF sorted = <<>> THEN <<x>>
    ELSE IF SortCompare(mode, sorted[Len(sorted)], x) <= 0 THEN Append(sorted, x)
    ELSE Append(InsertSorted(SubSeq(sorted, 1, Len(sorted) - 1), x, mode),
                sorted[Len(sorted)])

\* a sort that leaves the array as it is
StableSortNone(seq, mode) == seq

\* the stable sort of a sequence
RECURSIVE StableSort(_, _)
StableSort(seq, mode) ==
    IF seq = <<>> THEN <<>>
    ELSE InsertSorted(StableSort(SubSeq(seq, 1, Len(seq) - 1), mode), seq[Len(seq)], mode)

\* the orderings a sequence can be put in
Orderings(seq) ==
    { [i \in 1..Len(seq) |-> seq[p[i]]] :
        p \in { q \in [1..Len(seq) -> 1..Len(seq)] :
                  \A i, j \in 1..Len(seq) : i # j => q[i] # q[j] } }

\* what array.sort(comparator) can leave in the array: the stable sort for a
\* consistent comparator, otherwise an implementation-defined order
SortResults(seq, mode) ==
    IF ConsistentComparator(seq, mode) THEN {StableSort(seq, mode)}
    ELSE Orderings(seq)

\* the loop over processedTimes that keeps the first object of each uniqueId
RECURSIVE UniqueTimes(_)
UniqueTimes(seq) ==
    IF seq = <<>> THEN <<>>
    ELSE LET head == UniqueTimes(SubSeq(seq, 1, Len(seq) - 1))
             last == seq[Len(seq)]
         IN  IF \E i \in 1..Len(head) : head[i].uniqueId = last.uniqueId
             THEN head ELSE Append(head, last)

\* uniqueTimes.findIndex(t => !t.isPast), counted from 1; 0 for -1
NextDepartureIndex(seq) ==
    IF \A i \in 1..Len(seq) : seq[i].isPast THEN 0
    ELSE CHOOSE i \in 1..Len(seq) : ~seq[i].isPast /\ \A j \in 1..(i - 1) : seq[j].isPast

\* seq.slice(-n) for n >= 0: -0 is 0, so slice(-0) is the whole array
SliceLast(seq, n) ==
    IF n = 0 \/ n >= Len(seq) THEN seq ELSE SubSeq(seq, Len(seq) - n + 1, Len(seq))

\* seq.slice(from, from + n), from counted from 1
SliceFrom(seq, from, n) ==
    SubSeq(seq, from, IF from + n - 1 > Len(seq) THEN Len(seq) ELSE from + n - 1)

SelectedTimes(uniqueTimes, maxDep) ==
    IF NextDepartureIndex(uniqueTimes) = 0 THEN SliceLast(uniqueTimes, maxDep)
    ELSE SliceFrom(uniqueTimes, NextDepartureIndex(uniqueTimes), maxDep)

\* selectedTimes.map(t => ({time: t.time, isToday: t.isToday}))
FinalFormat(seq) == [i \in 1..Len(seq) |-> [time |-> seq[i].time, isToday |-> seq[i].isToday]]

\* the deduplicated sequences, sorted by diff, the two sorts can produce
SortedUniqueTimes(timeObjs, currentMinutes) ==
    UNION { SortResults(UniqueTimes(byAbs), "diff") :
              byAbs \in SortResults(ProcessedTimes(timeObjs, currentMinutes), "abs") }

\* the arrays processScheduleTimes(times, maxDepartures) can return at the
\* given time of day
processScheduleTimes(timeObjs, maxDep, currentMinutes) ==
    { FinalFormat(SelectedTimes(u, maxDep)) : u \in SortedUniqueTimes(timeObjs, currentMinutes) }

---------------------------------------------------------------------------
(* The departure list of one stop as a state machine: the time objects of  *)
(* the stop are built from the loaded documents, then every display        *)
(* refresh calls processScheduleTimes at a later time of the same day.     *)

\* the longest list of time objects
MaxTimes == 2

\* the largest config.maxVisibleDepartures
MaxDep == 2

\* well-formed time strings: "07:00", "08:00"
WellFormedTimes == { <<"0", "7", ":", "0", "0">>, <<"0", "8", ":", "0", "0">> }

\* malformed ones: missing, "", "7x"
MalformedTimes == { Undefined, <<>>, <<"7", "x">> }

\* what createEnhancedTimeObjects builds (time, isToday, day, dayOffset) for
\* today's and tomorrow's lists, a weekday index that also occurs under the
\* other day offset, malformed strings in today's list, and objects that
\* carry isToday only
TimeObjects ==
    { [time |-> t, isToday |-> (o = 0), day |-> d, dayOffset |-> o] :
        t \in WellFormedTimes, d \in {CurrentDay}, o \in {0, 1} }
    \cup { [time |-> t, isToday |-> FALSE, day |-> TomorrowDay, dayOffset |-> 1] :
            t \in WellFormedTimes }
    \cup { [time |-> t, isToday |-> TRUE, day |-> CurrentDay, dayOffset |-> 0] :
            t \in MalformedTimes }
    \cup { [time |-> <<"0", "7", ":", "0", "0">>, isToday |-> b] : b \in BOOLEAN }

TimeLists == UNION { [1..n -> TimeObjects] : n \in 0..MaxTimes }

\* minutes since midnight of the refreshes: 06:30, 07:30, 19:00
RefreshTimes == {390, 450, 1140}

\* the output's entries
Shown(out) == { out[i] : i \in 1..Len(out) }

TimesInit ==
    /\ times \in TimeLists
    /\ maxDepartures \in 0..MaxDep
    /\ now \in RefreshTimes
    /\ output = <<>>
    /\ rendered = FALSE
    /\ dropped = {}
    /\ configData = [sjo |-> <<>>, city |-> <<>>]
    /\ date = [day |-> 0, hour |-> 0, off |-> 1]
    /\ result = EmptyResult
    /\ phase = "idle"
    /\ WorkerIdle
    /\ RowIdle
    /\ PageIdle

\* the first rendering of the stop's row
RenderDepartures ==
    /\ phase = "idle"
    /\ ~rendered
    /\ output' \in processScheduleTimes(times, maxDepartures, now)
    /\ rendered' = TRUE
    /\ UNCHANGED <<times, maxDepartures, now, dropped, resolverVars, workerVars, appVars>>

\* a display refresh later the same day
RefreshDisplay ==
    /\ phase = "idle"
    /\ rendered
    /\ \E later \in RefreshTimes :
        /\ later > now
        /\ now' = later
        /\ output' \in processScheduleTimes(times, maxDepartures, later)
    /\ dropped' = dropped \cup (Shown(output) \ Shown(output'))
    /\ UNCHANGED <<times, maxDepartures, rendered, resolverVars, workerVars, appVars>>

TimesNext == RenderDepartures \/ RefreshDisplay

TimesSpec == TimesInit /\ [][TimesNext]_vars

---------------------------------------------------------------------------
(* Properties of processScheduleTimes *)

\* a string of the form HH:MM
IsHHMM(timeStr) ==
    /\ Len(timeStr) = 5
    /\ timeStr[3] = ":"
    /\ \A i \in {1, 2, 4, 5} : IsDigit(timeStr[i])

WellFormedEntry(timeObj) == IsHHMM(timeObj.time)

\* the diff of an input entry at the latest refresh
InputDiff(i) == ProcessedTime(times[i], now).diff

\* the diff of an output entry {time, isToday} at the latest refresh
OutputDiff(entry) == DiffOf(IF entry.isToday THEN 0 ELSE 1, timeToMinutes(entry.time), now)

\* C6: for every input, every current time and every maximum N, N = 0
\* included, the returned sequence has at most N entries.
C6_AtMostMaxDepartures == rendered => Len(output) <= maxDepartures

\* C7: whenever at least one input entry has diff >= 0, the output contains no
\* entry with diff < 0 and is the contiguous run of the sorted, deduplicated
\* sequence that starts at its first non-past entry.
C7_NoPastEntryOnceOneIsUpcoming ==
    rendered =>
        ((\E i \in 1..Len(times) : ~InputDiff(i).nan /\ InputDiff(i).val >= 0)
         => /\ \A i \in 1..Len(output) :
                  ~(~OutputDiff(output[i]).nan /\ OutputDiff(output[i]).val < 0)
            /\ \E u \in SortedUniqueTimes(times, now) :
                  /\ NextDepartureIndex(u) # 0
                  /\ output = FinalFormat(SubSeq(u, NextDepartureIndex(u),
                                    NextDepartureIndex(u) + Len(output) - 1)))

\* C8: as the time of day advances over a fixed input and N, entries only
\* drop off the output: an entry that has dropped out never reappears.
C8_DroppedEntryNeverReappears == rendered => Shown(output) \cap dropped = {}

\* C9: an entry whose time string is malformed never appears in the output,
\* and the output is that of the well-formed entries alone.
C9_MalformedEntriesAreDropped ==
    rendered =>
        /\ \A i \in 1..Len(output) : IsHHMM(output[i].time)
        /\ output \in processScheduleTimes(SelectSeq(times, WellFormedEntry),
                                           maxDepartures, now)

\* C10: for a fixed current time and N every permutation of the input entries
\* yields the same output sequence.
C10_InputOrderIsIrrelevant ==
    rendered =>
        \A p \in Orderings(times) : processScheduleTimes(p, maxDepartures, now) = {output}

\* the entries selected for the output (before the final map), for every
\* order the two sorts can produce
SelectedSets == { SelectedTimes(u, maxDepartures) : u \in SortedUniqueTimes(times, now) }

\* the deduplicated arrays (uniqueTimes after the loop)
DedupSets ==
    { UniqueTimes(byAbs) : byAbs \in SortResults(ProcessedTimes(times, now), "abs") }

\* C11: no two entries selected for the output share a uniqueId, and two
\* input entries with the same time string but different weekday index are
\* both kept by deduplication.
C11_UniqueIdsPerWeekdayAndTime ==
    rendered =>
        /\ \A sel \in SelectedSets :
              \A i, j \in 1..Len(sel) : i # j => sel[i].uniqueId # sel[j].uniqueId
        /\ \A u \in DedupSets :
              \A i \in 1..Len(times) :
                  \E k \in 1..Len(u) :
                      u[k].day = EntryDay(times[i]) /\ u[k].time = times[i].time

\* C11 witness: two entries with the same time string on different weekdays
\* were rendered and both are in the output.
C11_Witness ==
    /\ rendered
    /\ Len(times) = 2
    /\ times[1].time = times[2].time
    /\ EntryDay(times[1]) # EntryDay(times[2])
    /\ Len(output) = 2

\* C12: for well-formed entries the output is ordered by non-decreasing diff,
\* and diff is dayOffset * 1440 + minutesSinceMidnight(time) - currentMinutes.
C12_OutputSortedByDiff ==
    (rendered /\ \A i \in 1..Len(times) : WellFormedEntry(times[i])) =>
        /\ \A i, j \in 1..Len(output) :
              i < j => OutputDiff(output[i]).val <= OutputDiff(output[j]).val
        /\ \A sel \in SelectedSets :
              \A i \in 1..Len(sel) :
                  sel[i].diff = Num(sel[i].dayOffset * 1440
                                    + timeToMinutes(sel[i].time).val - now)

\* C12 witness: two well-formed entries given in descending order of diff
\* are returned in ascending order.
C12_Witness ==
    /\ rendered
    /\ Len(times) = 2
    /\ \A i \in 1..2 : WellFormedEntry(times[i])
    /\ InputDiff(1).val > InputDiff(2).val
    /\ Len(output) = 2
    /\ OutputDiff(output[1]).val < OutputDiff(output[2]).val

\* min(a, b)
Min(a, b) == IF a < b THEN a ELSE b

\* C13: when every input entry has diff < 0, the output is exactly the last
\* min(N, count) entries of the deduplicated sequence sorted by ascending
\* diff.
C13_DegradedViewIsLastN ==
    (rendered /\ \A i \in 1..Len(times) : ~InputDiff(i).nan /\ InputDiff(i).val < 0) =>
        \E u \in SortedUniqueTimes(times, now) :
            output = FinalFormat(SubSeq(u, Len(u) - Min(maxDepartures, Len(u)) + 1, Len(u)))

---------------------------------------------------------------------------
(* The service worker: URLs, responses and CacheStorage *)

\* a pathname is kept as its three pieces <<directory, name, extension>>
RootPath == <<"/", "", "">>

IndexHtml == <<"/", "index", ".html">>

ManifestJson == <<"/", "manifest", ".json">>

SjoConfigJson == <<"/data/", "ressel-sjo-config", ".json">>

AppJs == <<"/js/", "app", ".js">>

BoatPng == <<"/icons/", "boat", ".png">>

ApiPath == <<"/api/", "status", "">>

Pathnames == {RootPath, IndexHtml, ManifestJson, SjoConfigJson, AppJs, BoatPng, ApiPath}

\* query strings of a request URL
Searches == {"", "?v=1", "?v=2"}

\* event.request.url: a URL of the worker's origin, or a string new URL()
\* rejects
MalformedURL == [valid |-> FALSE, pathname |-> <<"", "", "">>, search |-> ""]

UrlOf(pathname, search) == [valid |-> TRUE, pathname |-> pathname, search |-> search]

\* pathname.endsWith(suffix) for a suffix that is an extension
EndsWith(pathname, suffix) == pathname[3] = suffix

\* the extensions normalizeURL reduces to origin + pathname
NormalizedExtensions == {".json", ".js", ".css", ".html"}

\* a normalisation that drops the query string of every URL
normalizeURLAnyExtension(url) == IF url.valid THEN [url EXCEPT !.search = ""] ELSE url

\* normalizeURL: origin + pathname for the four extensions, the URL as it is
\* for every other path and when new URL() throws
normalizeURL(url) ==
    IF ~url.valid THEN url
    ELSE IF \E e \in NormalizedExtensions : EndsWith(url.pathname, e)
    THEN [url EXCEPT !.search = ""]
    ELSE url

\* event.request.url.includes('/api/')
IncludesApi(url) == url.pathname[1] = "/api/"

\* a Response; undefined is the response of kind "undefined"
Response(kind, status, body) == [kind |-> kind, status |-> status, body |-> body]

NoResponse == Response("undefined", 0, "")

\* what the server can send: the document in one of its versions, or 404
Bodies == {"v1", "v2"}

NetworkResponses ==
    { Response("network", 200, b) : b \in Bodies } \cup { Response("network", 404, "not found") }

\* new Response(JSON.stringify({error: 'Offline och ingen cachedata tillgänglig'}))
OfflineJsonResponse == Response("synthetic", 200, "offline-json")

\* new Response('Offline och ingen cachedata tillgänglig', {status: 503})
UnavailableResponse == Response("synthetic", 503, "offline")

\* new Response('Ett allvarligt fel inträffade', {status: 500})
SeriousErrorResponse == Response("synthetic", 500, "error")

\* a JSON cache name left at the version before
StaleJsonCacheName == "resseltrafiken-json-v5.0.1"

\* the cache names of this version and of the version before it
CACHE_NAME == "resseltrafiken-v5.0.2"

JSON_CACHE_NAME == "resseltrafiken-json-v5.0.2"

cacheWhitelist == {CACHE_NAME, JSON_CACHE_NAME}

OldCacheNames == {"resseltrafiken-v5.0.1", "resseltrafiken-json-v5.0.1"}

\* a cache without entries; entries map a request URL to the stored
\* response's status and body
NoEntries == [k \in {} |-> [status |-> 0, body |-> ""]]

\* caches.match(url): the entry of the first cache, in creation order, that
\* has the URL; undefined when none has
CachesMatch(cs, url) ==
    IF \E i \in 1..Len(cs) : url \in DOMAIN cs[i].entries
    THEN LET i == CHOOSE j \in 1..Len(cs) :
                      /\ url \in DOMAIN cs[j].entries
                      /\ \A k \in 1..(j - 1) : url \notin DOMAIN cs[k].entries
         IN  Response("cached", cs[i].entries[url].status, cs[i].entries[url].body)
    ELSE NoResponse

\* caches.open(name): creates the cache when it does not exist
CachesOpen(cs, name) ==
    IF \E i \in 1..Len(cs) : cs[i].name = name THEN cs
    ELSE Append(cs, [name |-> name, entries |-> NoEntries])

\* a put that leaves an entry that is already there
CachePutIfAbsent(cs, name, url, response) ==
    LET opened == CachesOpen(cs, name)
    IN  [i \in 1..Len(opened) |->
            IF opened[i].name # name THEN opened[i]
            ELSE [opened[i] EXCEPT !.entries =
                    [k \in DOMAIN opened[i].entries \cup {url} |->
                        IF k \in DOMAIN opened[i].entries THEN opened[i].entries[k]
                        ELSE [status |-> response.status, body |-> response.body]]]]

\* caches.open(name).then(cache => cache.put(new Request(url), response))
CachePut(cs, name, url, response) ==
    LET opened == CachesOpen(cs, name)
    IN  [i \in 1..Len(opened) |->
            IF opened[i].name # name THEN opened[i]
            ELSE [opened[i] EXCEPT !.entries =
                    [k \in DOMAIN opened[i].entries \cup {url} |->
                        IF k = url THEN [status |-> response.status, body |-> response.body]
                        ELSE opened[i].entries[k]]]]

\* caches.delete(name)
CachesDelete(cs, name) == SelectSeq(cs, LAMBDA c : c.name # name)

---------------------------------------------------------------------------
(* The service worker as a state machine: the worker is installed, its    *)
(* activate listener cleans up and claims the clients, and from then on   *)
(* its fetch listener handles the page's requests for one document, each  *)
(* suspended at its network fetch and at its cache write.                 *)

\* the fetch events in progress at a time: one, or two that overlap
Handlers == {1, 2}

\* the files of STATIC_FILES_TO_CACHE and of JSON_FILES
STATIC_FILES_TO_CACHE == {RootPath, IndexHtml, AppJs, BoatPng, ManifestJson}

JSON_FILES == {SjoConfigJson}

\* what cache.addAll stored of the given files; only the entries of the
\* requested document and of ./index.html are ever read
InstalledEntries(files, d) ==
    [k \in { UrlOf(f, "") : f \in files \cap {d, IndexHtml} } |->
        [status |-> 200, body |-> "install"]]

\* the caches after an install in which both addAll resolved
FullInstall(d) ==
    << [name |-> CACHE_NAME, entries |-> InstalledEntries(STATIC_FILES_TO_CACHE, d)],
       [name |-> JSON_CACHE_NAME, entries |-> InstalledEntries(JSON_FILES, d)] >>

\* the caches the install listener leaves: both filled, the JSON cache empty
\* (its addAll rejected), or the static cache empty and no JSON cache (the
\* first addAll rejected); the catch swallows the rejection
InstalledStores(d) ==
    { FullInstall(d),
      << [name |-> CACHE_NAME, entries |-> InstalledEntries(STATIC_FILES_TO_CACHE, d)],
         [name |-> JSON_CACHE_NAME, entries |-> NoEntries] >>,
      << [name |-> CACHE_NAME, entries |-> NoEntries] >> }

\* the caches an earlier version left behind, created before this version's
OldStores(d) ==
    { <<>>,
      << [name |-> "resseltrafiken-v5.0.1",
          entries |-> InstalledEntries(STATIC_FILES_TO_CACHE, d)] >>,
      << [name |-> "resseltrafiken-v5.0.1",
          entries |-> InstalledEntries(STATIC_FILES_TO_CACHE, d)],
         [name |-> "resseltrafiken-json-v5.0.1",
          entries |-> InstalledEntries(JSON_FILES, d)] >> }

\* a fetch event: where its handling stands, its request, and how it was
\* answered
IdleHandler ==
    [ pc |-> "idle", url |-> MalformedURL, acceptsHtml |-> FALSE, branch |-> "none",
      lookup |-> "none", fetchFailed |-> FALSE, response |-> NoResponse ]

\* the version this worker was built with, and the one of a later deployment
APP_VERSION == "5.0.2"

NewerVersion == "5.0.3"

\* the pages in the worker's scope
Clients == {"page1", "page2"}

\* a manifest.json: whether response.json() parses it, and its version field
\* ("" when it has none)
Manifest(parses, version) == [kind |-> "ok", parses |-> parses, version |-> version]

DeployedManifests ==
    { Manifest(TRUE, APP_VERSION), Manifest(TRUE, NewerVersion), Manifest(TRUE, ""),
      Manifest(FALSE, "") }

\* no manifest was fetched yet
NoManifest == [kind |-> "none", parses |-> FALSE, version |-> ""]

\* what fetch('./manifest.json?_=' + Date.now()) can give: a rejection, a
\* response that is not ok, or the deployed manifest
ManifestFetches(served) ==
    { [kind |-> "rejected", parses |-> FALSE, version |-> ""],
      [kind |-> "notok", parses |-> FALSE, version |-> ""],
      served }

\* the messages of the worker
NoMessage == [type |-> "none", current |-> "", new |-> ""]

UpdateAvailable(current, new) == [type |-> "UPDATE_AVAILABLE", current |-> current, new |-> new]

\* self.clients.matchAll(): the clients this worker controls
MatchAll(isClaimed) == IF isClaimed THEN Clients ELSE {}

\* a check that notifies whenever a manifest was read
checkVersionAlwaysNotifies(fetched, controlled, box) ==
    IF fetched.kind = "ok" /\ fetched.parses
    THEN [c \in Clients |->
            IF c \in controlled THEN UpdateAvailable(APP_VERSION, fetched.version) ELSE box[c]]
    ELSE box

\* checkVersion: the clients' latest messages after the check
checkVersion(fetched, controlled, box) ==
    IF /\ fetched.kind = "ok"
       /\ fetched.parses
       /\ fetched.version # ""
       /\ fetched.version # APP_VERSION
    THEN [c \in Clients |->
            IF c \in controlled THEN UpdateAvailable(APP_VERSION, fetched.version) ELSE box[c]]
    ELSE box

\* checkVersion up to its fetch: the fetch of the manifest settles (one check
\* is in progress at a time)
CheckVersionFetch ==
    /\ manifest = NoManifest
    /\ manifest' \in ManifestFetches(deployed)
    /\ UNCHANGED <<deployed, inbox>>

\* checkVersion after its fetch: the comparison and the messages
CheckVersionNotify ==
    /\ manifest # NoManifest
    /\ inbox' = checkVersion(manifest, MatchAll(claimed), inbox)
    /\ manifest' = NoManifest
    /\ deployed' = deployed

CacheNames(cs) == { cs[i].name : i \in 1..Len(cs) }

\* the worker after its install listener; self.skipWaiting() was called only
\* when both addAll resolved
InstalledWorker ==
    /\ \E old \in OldStores(doc), new \in InstalledStores(doc) :
        /\ stores = old \o new
        /\ swState = IF new = FullInstall(doc) THEN "installed" ELSE "waiting"
    /\ pendingDeletes = {}
    /\ claimed = FALSE
    /\ deletedCaches = {}
    /\ manifest = NoManifest
    /\ inbox = [c \in Clients |-> NoMessage]

\* the worker of a site whose deployed manifest declares this version
WorkerInit ==
    /\ doc \in Pathnames
    /\ deployed = Manifest(TRUE, APP_VERSION)
    /\ InstalledWorker
    /\ handlers = [h \in Handlers |-> IdleHandler]
    /\ configData = [sjo |-> <<>>, city |-> <<>>]
    /\ date = [day |-> 0, hour |-> 0, off |-> 1]
    /\ result = EmptyResult
    /\ phase = "idle"
    /\ TimesIdle
    /\ RowIdle
    /\ PageIdle

\* message listener, SKIP_WAITING: self.skipWaiting() ends the wait of a worker
\* whose install did not call it
SkipWaitingMessage ==
    /\ swState = "waiting"
    /\ swState' = "installed"
    /\ UNCHANGED <<doc, stores, handlers, pendingDeletes, claimed, deletedCaches, versionVars, resolverVars, timeVars, appVars>>

\* activate listener: caches.keys() and a caches.delete for every name that is
\* not in cacheWhitelist; a waiting worker is activated once no client uses
\* the earlier version
ActivateStart ==
    /\ swState \in {"installed", "waiting"}
    /\ swState' = "activating"
    /\ pendingDeletes' = { n \in CacheNames(stores) : n \notin cacheWhitelist }
    /\ UNCHANGED <<doc, stores, handlers, claimed, deletedCaches, versionVars, resolverVars, timeVars, appVars>>

\* one caches.delete resolves
DeleteOldCache ==
    /\ swState = "activating"
    /\ \E n \in pendingDeletes :
        /\ stores' = CachesDelete(stores, n)
        /\ pendingDeletes' = pendingDeletes \ {n}
        /\ deletedCaches' = deletedCaches \cup {n}
    /\ UNCHANGED <<doc, handlers, swState, claimed, versionVars, resolverVars, timeVars, appVars>>

\* a claim that does not wait for the deletions
ClaimEnabledAtOnce(pending) == TRUE

\* Promise.all(...).then(() => self.clients.claim()): every deletion has
\* resolved
ClaimEnabled(pending) == pending = {}

ClaimClients ==
    /\ swState = "activating"
    /\ ClaimEnabled(pendingDeletes)
    /\ claimed' = TRUE
    /\ swState' = "claimed"
    /\ UNCHANGED <<doc, stores, handlers, pendingDeletes, deletedCaches, versionVars, resolverVars, timeVars, appVars>>

\* .then(() => checkVersion()): the check of the activate listener starts
ActivationCheck ==
    /\ swState = "claimed"
    /\ swState' = "checking"
    /\ CheckVersionFetch
    /\ UNCHANGED <<doc, stores, handlers, pendingDeletes, claimed, deletedCaches, resolverVars, timeVars, appVars>>

\* that check settles and with it event.waitUntil: the worker is activated
\* and receives fetch events
ActivationDone ==
    /\ swState = "checking"
    /\ swState' = "activated"
    /\ CheckVersionNotify
    /\ deletedCaches' = {}
    /\ UNCHANGED <<doc, stores, handlers, pendingDeletes, claimed, resolverVars, timeVars, appVars>>

\* setInterval(() => checkVersion(), 3600000)
VersionTimer ==
    /\ swState \notin {"off", "checking"}
    /\ CheckVersionFetch
    /\ UNCHANGED <<doc, stores, handlers, swState, pendingDeletes, claimed, deletedCaches, resolverVars, timeVars, appVars>>

\* message listener, CHECK_VERSION
CheckVersionMessage ==
    /\ swState \notin {"off", "checking"}
    /\ CheckVersionFetch
    /\ UNCHANGED <<doc, stores, handlers, swState, pendingDeletes, claimed, deletedCaches, resolverVars, timeVars, appVars>>

\* the check of the timer or of the message goes on after its fetch
NotifyClients ==
    /\ swState \notin {"off", "checking"}
    /\ CheckVersionNotify
    /\ UNCHANGED <<doc, stores, handlers, swState, pendingDeletes, claimed, deletedCaches, resolverVars, timeVars, appVars>>

\* message listener, CLEAR_CACHES: every cache is deleted
ClearCaches ==
    /\ swState # "off"
    /\ stores # <<>>
    /\ stores' = <<>>
    /\ UNCHANGED <<doc, handlers, swState, pendingDeletes, claimed, deletedCaches, versionVars, resolverVars, timeVars, appVars>>

\* the catch around the listener's body that would let the request pass
LetRequestPass == NoResponse

\* the catch around the listener's body: respondWith a generic 500 response
CatchResponse == SeriousErrorResponse

\* the JSON branch's fallback that answers with the synthetic payload when
\* no cache has the URL
JsonOfflineResponseOrSynthetic(cs, url) ==
    IF CachesMatch(cs, normalizeURL(url)) = NoResponse THEN OfflineJsonResponse
    ELSE CachesMatch(cs, normalizeURL(url))

\* the JSON branch when fetch rejects: caches.match(normalizedURL); its catch
\* runs only when caches.match rejects, and caches.match resolves with
\* undefined when no cache has the URL
JsonOfflineResponse(cs, url) == CachesMatch(cs, normalizeURL(url))

\* the static branch when fetch rejects: ./index.html from the caches for a
\* request that accepts text/html, the 503 response otherwise
StaticOfflineResponse(cs, acceptsHtml) ==
    IF acceptsHtml THEN CachesMatch(cs, UrlOf(IndexHtml, "")) ELSE UnavailableResponse

\* a lookup that never finds the stored copy
StaticLookupMiss(cs, url) == NoResponse

\* the static branch's first step: caches.match(normalizedURL)
StaticLookup(cs, url) == CachesMatch(cs, normalizeURL(url))

\* the fetch listener up to its first suspension: new URL(), the choice of
\* the branch, and for the static branch the cache lookup
HandlerAfterDispatch(cs, url, acceptsHtml) ==
    IF ~url.valid
    THEN [IdleHandler EXCEPT !.pc = "done", !.url = url, !.acceptsHtml = acceptsHtml,
                             !.branch = "catch", !.response = CatchResponse]
    ELSE IF EndsWith(url.pathname, ".json")
    THEN [IdleHandler EXCEPT !.pc = "json_fetch", !.url = url, !.acceptsHtml = acceptsHtml,
                             !.branch = "json"]
    ELSE IF StaticLookup(cs, url) # NoResponse
    THEN [IdleHandler EXCEPT !.pc = "done", !.url = url, !.acceptsHtml = acceptsHtml,
                             !.branch = "static", !.lookup = "hit",
                             !.response = StaticLookup(cs, url)]
    ELSE [IdleHandler EXCEPT !.pc = "static_fetch", !.url = url, !.acceptsHtml = acceptsHtml,
                             !.branch = "static", !.lookup = "miss"]

\* the requests of the page for its document
RequestUrls == { UrlOf(doc, q) : q \in Searches } \cup {MalformedURL}

\* whether the record of the event can be given to a new event
Free(h) == handlers[h].pc \in {"idle", "done"}

\* the records with a new event: the records are kept in the order the
\* events arrived, record 2 being the later one; the new event takes the
\* place of a finished one
Enqueue(hs, new) ==
    IF hs[1].pc \in {"idle", "done"} THEN [h \in Handlers |-> IF h = 1 THEN hs[2] ELSE new]
    ELSE [h \in Handlers |-> IF h = 1 THEN hs[1] ELSE new]

\* a fetch event arrives
Dispatch ==
    /\ swState = "activated"
    /\ \E h \in Handlers : Free(h)
    /\ \E url \in RequestUrls, acceptsHtml \in BOOLEAN :
        handlers' = Enqueue(handlers, HandlerAfterDispatch(stores, url, acceptsHtml))
    /\ UNCHANGED <<doc, stores, swState, pendingDeletes, claimed, deletedCaches, versionVars, resolverVars, timeVars, appVars>>

\* JSON branch: fetch(event.request) resolves; the response is returned and
\* the copy is written later
JsonFetchResolved ==
    /\ \E h \in Handlers, r \in NetworkResponses :
        /\ handlers[h].pc = "json_fetch"
        /\ handlers' = [handlers EXCEPT ![h].pc = "json_put", ![h].response = r]
    /\ UNCHANGED <<doc, stores, swState, pendingDeletes, claimed, deletedCaches, versionVars, resolverVars, timeVars, appVars>>

\* JSON branch: caches.open(JSON_CACHE_NAME) and cache.put under the
\* normalized URL
JsonCachePut ==
    /\ \E h \in Handlers :
        /\ handlers[h].pc = "json_put"
        /\ stores' = CachePut(stores, JSON_CACHE_NAME, normalizeURL(handlers[h].url),
                              handlers[h].response)
        /\ handlers' = [handlers EXCEPT ![h].pc = "done"]
    /\ UNCHANGED <<doc, swState, pendingDeletes, claimed, deletedCaches, versionVars, resolverVars, timeVars, appVars>>

\* JSON branch: fetch rejects
JsonFetchRejected ==
    /\ \E h \in Handlers :
        /\ handlers[h].pc = "json_fetch"
        /\ handlers' = [handlers EXCEPT ![h].pc = "done", ![h].fetchFailed = TRUE,
                            ![h].response = JsonOfflineResponse(stores, handlers[h].url)]
    /\ UNCHANGED <<doc, stores, swState, pendingDeletes, claimed, deletedCaches, versionVars, resolverVars, timeVars, appVars>>

\* static branch: fetch resolves; a response that is not 200 is returned as
\* it is, a 200 response is returned and written later
StaticFetchResolved ==
    /\ \E h \in Handlers, r \in NetworkResponses :
        /\ handlers[h].pc = "static_fetch"
        /\ handlers' = [handlers EXCEPT
                            ![h].pc = IF r.status # 200 THEN "done" ELSE "static_put",
                            ![h].response = r]
    /\ UNCHANGED <<doc, stores, swState, pendingDeletes, claimed, deletedCaches, versionVars, resolverVars, timeVars, appVars>>

\* static branch: caches.open(CACHE_NAME) and, unless the URL includes
\* '/api/', cache.put under the normalized URL
StaticCachePut ==
    /\ \E h \in Handlers :
        /\ handlers[h].pc = "static_put"
        /\ stores' = IF IncludesApi(handlers[h].url) THEN CachesOpen(stores, CACHE_NAME)
                     ELSE CachePut(stores, CACHE_NAME, normalizeURL(handlers[h].url),
                                   handlers[h].response)
        /\ handlers' = [handlers EXCEPT ![h].pc = "done"]
    /\ UNCHANGED <<doc, swState, pendingDeletes, claimed, deletedCaches, versionVars, resolverVars, timeVars, appVars>>

\* static branch: fetch rejects
StaticFetchRejected ==
    /\ \E h \in Handlers :
        /\ handlers[h].pc = "static_fetch"
        /\ handlers' = [handlers EXCEPT ![h].pc = "done", ![h].fetchFailed = TRUE,
                            ![h].response =
                                StaticOfflineResponse(stores, handlers[h].acceptsHtml)]
    /\ UNCHANGED <<doc, stores, swState, pendingDeletes, claimed, deletedCaches, versionVars, resolverVars, timeVars, appVars>>

WorkerNext ==
    \/ SkipWaitingMessage
    \/ ActivateStart
    \/ DeleteOldCache
    \/ ClaimClients
    \/ ActivationCheck
    \/ ActivationDone
    \/ ClearCaches
    \/ Dispatch
    \/ JsonFetchResolved
    \/ JsonCachePut
    \/ JsonFetchRejected
    \/ StaticFetchResolved
    \/ StaticCachePut
    \/ StaticFetchRejected

WorkerSpec == WorkerInit /\ [][WorkerNext]_vars

\* a record that takes no fetch event
UnusedHandler == [IdleHandler EXCEPT !.pc = "unused"]

\* the worker of a site that serves any manifest; its fetch events come one
\* at a time
VersionInit ==
    /\ doc \in Pathnames
    /\ deployed \in DeployedManifests
    /\ InstalledWorker
    /\ handlers = [h \in Handlers |-> IF h = 1 THEN UnusedHandler ELSE IdleHandler]
    /\ configData = [sjo |-> <<>>, city |-> <<>>]
    /\ date = [day |-> 0, hour |-> 0, off |-> 1]
    /\ result = EmptyResult
    /\ phase = "idle"
    /\ TimesIdle
    /\ RowIdle
    /\ PageIdle

VersionNext == WorkerNext \/ VersionTimer \/ CheckVersionMessage \/ NotifyClients

VersionSpec == VersionInit /\ [][VersionNext]_vars

---------------------------------------------------------------------------
(* Properties of the service worker *)

\* the entries of the cache of the given name; none when it does not exist
EntriesOf(cs, name) ==
    IF \E i \in 1..Len(cs) : cs[i].name = name
    THEN (cs[CHOOSE i \in 1..Len(cs) : cs[i].name = name]).entries
    ELSE NoEntries

\* the URL with its query string discarded
WithoutQuery(url) == [url EXCEPT !.search = ""]

\* a fetch event arrives in this step; its record is handlers'[2]
Arrives ==
    /\ handlers' # handlers
    /\ \E h \in Handlers : Free(h)
    /\ handlers'[1] = IF Free(1) THEN handlers[2] ELSE handlers[1]

\* the fetch event was answered in this step
Answered(h) == ~Arrives /\ handlers[h].pc # "done" /\ handlers'[h].pc = "done"

\* C14: a document of the JSON branch is stored under its normalized key (the
\* path without the query string) when its fetch succeeded, and a request for
\* the same path under another query string, made while the network fails,
\* is answered with the payload stored in the JSON cache.
C14_OfflineJsonIsStoredPayload ==
    [][\A h \in Handlers :
          /\ (handlers[h].pc = "json_put" /\ Answered(h))
                => /\ WithoutQuery(handlers[h].url) \in DOMAIN EntriesOf(stores', JSON_CACHE_NAME)
                   /\ EntriesOf(stores', JSON_CACHE_NAME)[WithoutQuery(handlers[h].url)].body
                         = handlers[h].response.body
          /\ (/\ handlers[h].pc = "json_fetch"
              /\ Answered(h)
              /\ handlers'[h].fetchFailed
              /\ WithoutQuery(handlers[h].url) \in DOMAIN EntriesOf(stores, JSON_CACHE_NAME))
                => handlers'[h].response.body
                      = EntriesOf(stores, JSON_CACHE_NAME)[WithoutQuery(handlers[h].url)].body
      ]_vars

\* C15: a request of the JSON branch whose fetch failed is answered with the
\* stored copy or with the synthetic offline payload, never with an empty or
\* undefined response.
C15_OfflineJsonAlwaysAnswered ==
    \A h \in Handlers :
        (handlers[h].pc = "done" /\ handlers[h].branch = "json" /\ handlers[h].fetchFailed)
            => handlers[h].response.kind \in {"cached", "synthetic"}

\* C16 as stated: when the request URL cannot be parsed the handler produces
\* no response of its own and the request goes to the network.
C16_MalformedUrlFailsOpen ==
    \A h \in Handlers :
        (handlers[h].pc = "done" /\ ~handlers[h].url.valid)
            => handlers[h].response = LetRequestPass

\* C16 amended: when the request URL cannot be parsed the handler answers with
\* the synthetic 500 response and neither fetches nor touches a cache.
C16_MalformedUrlAnswered500 ==
    \A h \in Handlers :
        (handlers[h].pc # "idle" /\ ~handlers[h].url.valid)
            => /\ handlers[h].pc = "done"
               /\ handlers[h].branch = "catch"
               /\ handlers[h].response = SeriousErrorResponse

\* C16 witness: a request with an unparsable URL has been answered.
C16_Witness ==
    \E h \in Handlers :
        /\ handlers[h].pc = "done"
        /\ ~handlers[h].url.valid
        /\ handlers[h].response.status = 500

\* the cache a branch writes to
CacheOfBranch(branch) == IF branch = "json" THEN JSON_CACHE_NAME ELSE CACHE_NAME

\* the fetch event writes its copy in this step
Writes(h) ==
    /\ handlers[h].pc \in {"json_put", "static_put"}
    /\ Answered(h)
    /\ ~IncludesApi(handlers[h].url)

\* C17 as stated: for both resource classes and every request URL the store
\* key is the URL with its query string discarded, whatever the extension.
C17_KeyIsUrlWithoutQuery ==
    [][\A h \in Handlers :
          Writes(h) =>
              /\ WithoutQuery(handlers[h].url)
                    \in DOMAIN EntriesOf(stores', CacheOfBranch(handlers[h].branch))
              /\ handlers[h].url
                    \in DOMAIN EntriesOf(stores', CacheOfBranch(handlers[h].branch))
                    => handlers[h].url.search = ""
      ]_vars

\* the store key of a request URL: without the query string for a path that
\* ends in .json, .js, .css or .html, the whole URL for every other path
KeyOf(url) ==
    IF url.pathname[3] \in {".json", ".js", ".css", ".html"} THEN WithoutQuery(url) ELSE url

\* C17 amended: for both resource classes the store key is the URL with its
\* query string discarded when the path ends in .json, .js, .css or .html,
\* and the URL with its query string for every other path; copies are
\* written under that key and the static lookup reads it.
C17_KeyDropsQueryForFourExtensions ==
    [][\A h \in Handlers :
          /\ Writes(h) =>
              /\ KeyOf(handlers[h].url)
                    \in DOMAIN EntriesOf(stores', CacheOfBranch(handlers[h].branch))
              /\ EntriesOf(stores', CacheOfBranch(handlers[h].branch))[KeyOf(handlers[h].url)].body
                    = handlers[h].response.body
              /\ \A k \in DOMAIN EntriesOf(stores', CacheOfBranch(handlers[h].branch)) :
                    k # KeyOf(handlers[h].url)
                        => k \in DOMAIN EntriesOf(stores, CacheOfBranch(handlers[h].branch))
          /\ (Arrives /\ handlers'[2].lookup = "hit")
                => handlers'[2].response = CachesMatch(stores, KeyOf(handlers'[2].url))
      ]_vars

\* C17 witness: a script requested under a query string is stored without
\* it, while an icon requested under a query string is stored with it.
C17_Witness ==
    \E h \in Handlers :
        /\ handlers[h].pc = "done"
        /\ handlers[h].lookup = "miss"
        /\ handlers[h].response.kind = "network"
        /\ handlers[h].response.status = 200
        /\ handlers[h].url.search = "?v=1"
        /\ \/ /\ handlers[h].url.pathname = AppJs
              /\ UrlOf(AppJs, "") \in DOMAIN EntriesOf(stores, CACHE_NAME)
              /\ UrlOf(AppJs, "?v=1") \notin DOMAIN EntriesOf(stores, CACHE_NAME)
           \/ /\ handlers[h].url.pathname = BoatPng
              /\ UrlOf(BoatPng, "?v=1") \in DOMAIN EntriesOf(stores, CACHE_NAME)

\* a fetch event of the static branch arrives in this step
StaticArrives == Arrives /\ handlers'[2].branch = "static"

\* a request that finds its stored copy is answered with it, is never
\* suspended at a network fetch and writes nothing
StoredCopyIsServed ==
    (StaticArrives /\ CachesMatch(stores, KeyOf(handlers'[2].url)) # NoResponse)
        => /\ handlers'[2].pc = "done"
           /\ handlers'[2].response = CachesMatch(stores, KeyOf(handlers'[2].url))
           /\ stores' = stores

\* no entry of the static cache that stays is given another payload
NoEntryOverwritten ==
    \A k \in DOMAIN EntriesOf(stores, CACHE_NAME) :
        k \in DOMAIN EntriesOf(stores', CACHE_NAME)
            => EntriesOf(stores', CACHE_NAME)[k] = EntriesOf(stores, CACHE_NAME)[k]

\* C18 as stated: once a static asset is stored under its key every later
\* request for the key returns the stored copy without a network fetch, and
\* the entry is never overwritten, also when two requests for a key that is
\* not stored yet overlap.
C18_StoredAssetNeverOverwritten == [][StoredCopyIsServed /\ NoEntryOverwritten]_vars

\* C18 amended: a request that finds the stored copy returns it, issues no
\* network fetch and writes nothing; an entry of the static cache is written
\* only by a request whose lookup missed, so overlapping requests for a key
\* that is not stored yet each fetch and write it, the last write staying.
C18_OnlyMissedLookupsWrite ==
    [][/\ StoredCopyIsServed
       /\ ~NoEntryOverwritten
            => \E h \in Handlers :
                  /\ handlers[h].pc = "static_put"
                  /\ Answered(h)
                  /\ handlers[h].lookup = "miss"
                  /\ EntriesOf(stores', CACHE_NAME)[KeyOf(handlers[h].url)].body
                        = handlers[h].response.body
      ]_vars

\* C18 witness: two requests for the same key both missed, both fetched and
\* both wrote; the entry holds the payload of one and not of the other.
C18_Witness ==
    /\ \A h \in Handlers :
          /\ handlers[h].pc = "done"
          /\ handlers[h].branch = "static"
          /\ handlers[h].lookup = "miss"
          /\ handlers[h].response.kind = "network"
          /\ handlers[h].response.status = 200
    /\ KeyOf(handlers[1].url) = KeyOf(handlers[2].url)
    /\ handlers[1].response.body # handlers[2].response.body
    /\ KeyOf(handlers[1].url) \in DOMAIN EntriesOf(stores, CACHE_NAME)
    /\ EntriesOf(stores, CACHE_NAME)[KeyOf(handlers[1].url)].body = handlers[2].response.body

\* C19: a request of the static branch that has no stored copy and whose
\* fetch failed is answered with the cached ./index.html when it accepts
\* text/html and with the 503 response otherwise; a response is always
\* produced.
C19_OfflineStaticAlwaysAnswered ==
    \A h \in Handlers :
        (handlers[h].pc = "done" /\ handlers[h].branch = "static" /\ handlers[h].fetchFailed)
            => /\ handlers[h].response # NoResponse
               /\ handlers[h].acceptsHtml => handlers[h].response.kind = "cached"
               /\ ~handlers[h].acceptsHtml => handlers[h].response = UnavailableResponse

DifferentVersion(m) == m.kind = "ok" /\ m.parses /\ m.version # "" /\ m.version # APP_VERSION

\* a check goes on after its fetch in this step
CheckSettles == manifest # NoManifest /\ manifest' = NoManifest

\* C21: whenever the fetched manifest declares a version different from
\* APP_VERSION every connected client receives an UPDATE_AVAILABLE message
\* with the current and the new version; when the versions are equal or the
\* fetch of the manifest fails no client receives a message.
C21_UpdateAvailableOnlyOnMismatch ==
    [][/\ (CheckSettles /\ DifferentVersion(manifest))
            => \A c \in MatchAll(claimed) :
                  inbox'[c] = [type |-> "UPDATE_AVAILABLE", current |-> "5.0.2",
                               new |-> manifest.version]
       /\ (CheckSettles /\ (manifest.kind = "rejected" \/ manifest.version = "5.0.2"))
            => inbox' = inbox
       /\ inbox' # inbox => (CheckSettles /\ DifferentVersion(manifest))
      ]_vars

\* C21 witness: both clients of the claimed worker hold the message that
\* names version 5.0.2 as current and 5.0.3 as new.
C21_Witness ==
    /\ claimed
    /\ manifest = NoManifest
    /\ \A c \in Clients :
          inbox[c] = [type |-> "UPDATE_AVAILABLE", current |-> "5.0.2", new |-> "5.0.3"]

\* C22: when two fetches of one JSON document overlap and both succeed, the
\* JSON cache holds after each write the payload of that write, whichever
\* request was issued first, and its entry changes in no other step.
C22_LastCompletedWriteStays ==
    [][/\ \A h \in Handlers :
            (handlers[h].pc = "json_put" /\ Answered(h))
                => EntriesOf(stores', JSON_CACHE_NAME)[KeyOf(handlers[h].url)]
                      = [status |-> handlers[h].response.status,
                         body |-> handlers[h].response.body]
       /\ \A k \in DOMAIN EntriesOf(stores', JSON_CACHE_NAME) :
            (k \notin DOMAIN EntriesOf(stores, JSON_CACHE_NAME)
             \/ EntriesOf(stores', JSON_CACHE_NAME)[k] # EntriesOf(stores, JSON_CACHE_NAME)[k])
                => \E h \in Handlers :
                      handlers[h].pc = "json_put" /\ Answered(h) /\ KeyOf(handlers[h].url) = k
      ]_vars

\* C22 witness: two requests for one JSON document both fetched and both
\* wrote, and the cache holds the payload of the request issued first: its
\* write completed last.
C22_Witness ==
    /\ \A h \in Handlers :
          /\ handlers[h].pc = "done"
          /\ handlers[h].branch = "json"
          /\ handlers[h].response.kind = "network"
          /\ handlers[h].response.status = 200
    /\ handlers[1].response.body # handlers[2].response.body
    /\ KeyOf(handlers[1].url) \in DOMAIN EntriesOf(stores, JSON_CACHE_NAME)
    /\ EntriesOf(stores, JSON_CACHE_NAME)[KeyOf(handlers[1].url)].body
          = handlers[1].response.body

\* C27: only a successful live fetch updates the stored copy of a JSON
\* document: a live response with a non-success status (404, 500) is not
\* written to the JSON cache and never replaces a stored good copy.
C27_NonSuccessNotStored ==
    [][\A h \in Handlers :
          (handlers[h].pc = "json_put" /\ Answered(h) /\ handlers[h].response.status # 200)
              => EntriesOf(stores', "resseltrafiken-json-v5.0.2")
                    = EntriesOf(stores, "resseltrafiken-json-v5.0.2")
      ]_vars

\* the stores of version 5.0.2
StoresOfVersion == {"resseltrafiken-v5.0.2", "resseltrafiken-json-v5.0.2"}

\* the stores a step creates or writes
StoresTouched ==
    {n \in CacheNames(stores') :
        n \notin CacheNames(stores) \/ EntriesOf(stores', n) # EntriesOf(stores, n)}

---------------------------------------------------------------------------
(* Renderer.createStopRow: the time elements of one stop's row, built from *)
(* what processScheduleTimes returned for today's and tomorrow's lists.    *)

\* createEnhancedTimeObjects(times, date, currentDate) for today's list
\* (dayOffset 0) and tomorrow's list (dayOffset 1)
createEnhancedTimeObjects(ts, dayNumber, dayOffset) ==
    [i \in 1..Len(ts) |->
        [time |-> ts[i], isToday |-> (dayOffset = 0), day |-> dayNumber,
         dayOffset |-> dayOffset]]

\* the departures arrays of one stop in a timetable document
DepartureLists == UNION { [1..n -> WellFormedTimes] : n \in 0..MaxTimes }

\* minutes since midnight at which a row is built: 06:55, 07:00, 07:30,
\* 08:00, 19:00
RowRefreshTimes == {415, 420, 450, 480, 1140}

\* hours * 60 + minutes of time.split(":").map(Number)
TimeInMinutes(time) ==
    LET parts == SplitColon(time)
    IN  Plus(Times60(ToNumber(parts[1])),
             IF Len(parts) >= 2 THEN ToNumber(parts[2]) ELSE NaN)

\* Renderer.isDepartureInFuture
isDepartureInFuture(time, currentMinutes) ==
    LET t == TimeInMinutes(time) IN ~t.nan /\ t.val > currentMinutes

\* times.some(timeObj => timeObj.isToday && this.isDepartureInFuture(timeObj.time))
HasRemainingTodayDepartures(timeObjs, currentMinutes) ==
    \E i \in 1..Len(timeObjs) :
        timeObjs[i].isToday /\ isDepartureInFuture(timeObjs[i].time, currentMinutes)

\* Renderer.createTimeElement: the highlight class the element gets
createTimeElement(time, isToday, isNextDeparture, hasRemaining, currentMinutes) ==
    LET t == TimeInMinutes(time)
        diffMinutes == t.val - currentMinutes
    IN  IF ~isNextDeparture THEN "none"
        ELSE IF isToday
        THEN IF ~t.nan /\ diffMinutes < 10 /\ diffMinutes >= 0 THEN "highlight-yellow"
             ELSE IF ~t.nan /\ diffMinutes >= 0 THEN "highlight-green"
             ELSE "none"
        ELSE IF ~hasRemaining THEN "highlight-green" ELSE "none"

\* Renderer.createStopRow: one time element per time object
createStopRow(timeObjs, isHighlighted, currentMinutes) ==
    LET hasRemaining == HasRemainingTodayDepartures(timeObjs, currentMinutes)
    IN  [i \in 1..Len(timeObjs) |->
            createTimeElement(timeObjs[i].time, timeObjs[i].isToday,
                i = 1 /\ isHighlighted /\ (hasRemaining \/ ~timeObjs[i].isToday),
                hasRemaining, currentMinutes)]

RowInit ==
    /\ \E today \in DepartureLists, tomorrow \in DepartureLists :
          times = createEnhancedTimeObjects(today, CurrentDay, 0)
                    \o createEnhancedTimeObjects(tomorrow, TomorrowDay, 1)
    /\ maxDepartures \in 1..MaxDep
    /\ now \in RowRefreshTimes
    /\ highlightStop \in BOOLEAN
    /\ output = <<>>
    /\ row = <<>>
    /\ rendered = FALSE
    /\ dropped = {}
    /\ configData = [sjo |-> <<>>, city |-> <<>>]
    /\ date = [day |-> 0, hour |-> 0, off |-> 1]
    /\ result = EmptyResult
    /\ phase = "row"
    /\ WorkerIdle
    /\ PageIdle

\* renderSjostadsTimetable: processScheduleTimes, then createStopRow
RenderRow ==
    /\ phase = "row"
    /\ ~rendered
    /\ \E out \in processScheduleTimes(times, maxDepartures, now) :
        /\ output' = out
        /\ row' = createStopRow(out, highlightStop, now)
    /\ rendered' = TRUE
    /\ UNCHANGED <<times, maxDepartures, now, dropped, highlightStop, resolverVars,
                   workerVars, pageVars>>

\* the display refresh of a later minute builds the row again
RefreshRow ==
    /\ phase = "row"
    /\ rendered
    /\ \E later \in RowRefreshTimes :
        /\ later > now
        /\ now' = later
        /\ \E out \in processScheduleTimes(times, maxDepartures, later) :
            /\ output' = out
            /\ row' = createStopRow(out, highlightStop, later)
    /\ dropped' = dropped \cup (Shown(output) \ Shown(output'))
    /\ UNCHANGED <<times, maxDepartures, rendered, highlightStop, resolverVars,
                   workerVars, pageVars>>

RowNext == RenderRow \/ RefreshRow

RowSpec == RowInit /\ [][RowNext]_vars

\* C26: on the highlighted stop, whenever the first displayed departure is
\* today's and not yet past (diff >= 0) it is highlighted, yellow when it is
\* less than 10 minutes away and green otherwise; no time element other than
\* the first of the highlighted stop is ever highlighted.
C26_NextDepartureHighlighted ==
    rendered =>
        /\ (/\ highlightStop
            /\ Len(output) >= 1
            /\ output[1].isToday
            /\ OutputDiff(output[1]).val >= 0)
              => row[1] = IF OutputDiff(output[1]).val < 10
                          THEN "highlight-yellow" ELSE "highlight-green"
        /\ \A i \in 1..Len(row) : row[i] # "none" => (i = 1 /\ highlightStop)

---------------------------------------------------------------------------
(* The page: loadAllTimetables calls, the midnight check and the four      *)
(* interval timers.  A calendar date is a month and a day of the month;    *)
(* getDate() reads the day of the month.                                   *)

\* the months the page runs through
Months == {1, 2}

\* the days of one month
DaysPerMonth == 2

\* how often startAllTimers runs
MaxStarts == 2

\* the loadAllTimetables calls that can be in flight at once
Slots == {1, 2}

CalendarDates == [month : Months, dom : 1..DaysPerMonth]

\* days since the first date
DayIndex(d) == (d.month - 1) * DaysPerMonth + (d.dom - 1)

\* tomorrow.setDate(tomorrow.getDate() + 1)
Tomorrow(d) ==
    IF d.dom < DaysPerMonth THEN [month |-> d.month, dom |-> d.dom + 1]
    ELSE [month |-> d.month + 1, dom |-> 1]

\* date.getDate()
GetDate(d) == d.dom

\* new Date() on that calendar date, at local noon
DateOf(d) == [day |-> DayIndex(d), hour |-> 12, off |-> 1]

\* the configuration documents: a line's season list is empty or holds one
\* season
PageConfigs ==
    { [sjo |-> a, city |-> b] :
        a \in {<<>>, BaseList(SjoKeys)}, b \in {<<>>, BaseList(CityKeys)} }

\* a parsed timetable document with its _loadedForDate
Document(file, d) == <<"doc", file, d>>

LoadedForDate(document) == document[3]

\* timetableData.today and timetableData.tomorrow before any load
NoTimetables ==
    [ sjo |-> Null, city |-> Null,
      isExpired |-> [sjo |-> FALSE, city |-> FALSE],
      expiryDate |-> [sjo |-> Null, city |-> Null] ]

\* whether the fetch of a line's document resolves ok and parses
AllServed == [sjo |-> TRUE, city |-> TRUE]

ServedOutcomes ==
    { [today |-> AllServed, tomorrow |-> AllServed] }
    \cup { [today |-> [AllServed EXCEPT ![l] = FALSE], tomorrow |-> AllServed] : l \in Lines }
    \cup { [today |-> AllServed, tomorrow |-> [AllServed EXCEPT ![l] = FALSE]] : l \in Lines }

\* loadTimetableForDate: null, or the two documents with the expiry status
loadTimetableForDate(cfg, d, served) ==
    LET timetableFiles == determineTimetableFiles(cfg, DateOf(d))
    IN  IF Falsy(timetableFiles.sjo) \/ Falsy(timetableFiles.city)
        THEN [null |-> TRUE, value |-> NoTimetables]
        ELSE IF ~served.sjo \/ ~served.city
        THEN [null |-> TRUE, value |-> NoTimetables]
        ELSE [null |-> FALSE,
              value |-> [ sjo |-> Document(timetableFiles.sjo, d),
                          city |-> Document(timetableFiles.city, d),
                          isExpired |-> [sjo |-> timetableFiles.sjoExpired,
                                         city |-> timetableFiles.cityExpired],
                          expiryDate |-> [sjo |-> timetableFiles.sjoExpiryDate,
                                          city |-> timetableFiles.cityExpiryDate] ]]

\* a store that takes today's data as soon as today's load succeeded
StoreTimetablesEither(data, todayData, tomorrowData, at) ==
    IF ~todayData.null
    THEN [today |-> todayData.value,
          tomorrow |-> IF tomorrowData.null THEN data.tomorrow ELSE tomorrowData.value,
          lastUpdate |-> <<"at", at>>]
    ELSE data

\* if (todayData && tomorrowData) { timetableData.today = ...; ... }
StoreTimetables(data, todayData, tomorrowData, at) ==
    IF ~todayData.null /\ ~tomorrowData.null
    THEN [today |-> todayData.value, tomorrow |-> tomorrowData.value,
          lastUpdate |-> <<"at", at>>]
    ELSE data

\* updateDisplay: the error notice without both documents of today, else
\* the timetables of both lines
updateDisplay(data) ==
    IF Falsy(data.today.sjo) \/ Falsy(data.today.city)
    THEN [lines |-> {}, error |-> TRUE]
    ELSE [lines |-> Lines, error |-> FALSE]

\* handleError: the notice is appended to what is shown
handleError(shown) == [shown EXCEPT !.error = TRUE]

\* the condition of checkForMidnight
NewDayDetected(data, today) ==
    \/ Falsy(data.today.sjo)
    \/ Falsy(data.today.city)
    \/ GetDate(LoadedForDate(data.today.sjo)) # GetDate(today)

\* the four timers
TimerKinds == <<"displayUpdate", "dataRefresh", "midnightCheck", "versionCheck">>

\* timers before startAllTimers: every id null
NoTimers == [k \in {TimerKinds[i] : i \in 1..4} |-> 0]

\* a clearInterval that cancels nothing
ClearIntervalNone(tasks, id) == tasks

\* clearInterval(id)
ClearInterval(tasks, id) == { t \in tasks : t[2] # id }

\* if (timers.kind) clearInterval(timers.kind), for the four kinds in turn
RECURSIVE ClearTimers(_, _, _)
ClearTimers(tasks, held, i) ==
    IF i > 4 THEN tasks
    ELSE ClearTimers(IF held[TimerKinds[i]] # 0
                     THEN ClearInterval(tasks, held[TimerKinds[i]]) ELSE tasks,
                     held, i + 1)

\* the id setInterval returns for the i-th timer of the n-th startAllTimers
NewTimerId(n, i) == 4 * n + i

\* a loadAllTimetables call that has not been made
IdleCycle ==
    [pc |-> "idle", now |-> [month |-> 0, dom |-> 0],
     served |-> [today |-> AllServed, tomorrow |-> AllServed]]

FreeSlot(s) == cycles[s].pc \in {"idle", "done"}

Running(kind) == \E t \in intervals : t[1] = kind

PageInit ==
    /\ configData \in PageConfigs
    /\ pageDate = [month |-> 1, dom |-> 1]
    /\ timetableData = [today |-> NoTimetables, tomorrow |-> NoTimetables,
                        lastUpdate |-> Null]
    /\ cycles = [s \in Slots |-> IdleCycle]
    /\ display = [lines |-> {}, error |-> FALSE]
    /\ timers = NoTimers
    /\ intervals = {}
    /\ timerStarts = 0
    /\ date = [day |-> 0, hour |-> 0, off |-> 1]
    /\ result = EmptyResult
    /\ phase = "page"
    /\ TimesIdle
    /\ WorkerIdle
    /\ RowIdle

\* loadAllTimetables up to its await: now is read and both
\* loadTimetableForDate calls are made
LoadAllTimetables ==
    /\ \E s \in Slots :
        /\ FreeSlot(s)
        /\ \A t \in Slots : t < s => ~FreeSlot(t)
        /\ cycles' = [cycles EXCEPT ![s] = [IdleCycle EXCEPT !.pc = "loading",
                                                             !.now = pageDate]]
    /\ UNCHANGED <<pageDate, timetableData, display, timers, intervals, timerStarts>>

\* initialize: await loadAllTimetables()
InitialLoad ==
    /\ phase = "page"
    /\ timerStarts = 0
    /\ \A s \in Slots : cycles[s].pc = "idle"
    /\ LoadAllTimetables
    /\ UNCHANGED <<resolverVars, timeVars, workerVars, rowVars>>

\* loadAllTimetables after its await
LoadSettles ==
    /\ phase = "page"
    /\ \E s \in Slots, served \in ServedOutcomes :
        /\ cycles[s].pc = "loading"
        /\ LET at == cycles[s].now
               todayData == loadTimetableForDate(configData, at, served.today)
               tomorrowData == loadTimetableForDate(configData, Tomorrow(at), served.tomorrow)
           IN  /\ timetableData' = StoreTimetables(timetableData, todayData, tomorrowData, at)
               /\ display' = IF ~todayData.null /\ ~tomorrowData.null
                             THEN updateDisplay(timetableData')
                             ELSE handleError(display)
        /\ cycles' = [cycles EXCEPT ![s].pc = "done", ![s].served = served]
    /\ UNCHANGED <<pageDate, timers, intervals, timerStarts, resolverVars, timeVars,
                   workerVars, rowVars>>

\* startAllTimers; initialize calls it once its first load has settled
StartAllTimers ==
    /\ phase = "page"
    /\ timerStarts < MaxStarts
    /\ \E s \in Slots : cycles[s].pc = "done"
    /\ timers' = [k \in DOMAIN timers |->
                    NewTimerId(timerStarts, CHOOSE i \in 1..4 : TimerKinds[i] = k)]
    /\ intervals' = ClearTimers(intervals, timers, 1)
                        \cup { <<TimerKinds[i], NewTimerId(timerStarts, i)>> : i \in 1..4 }
    /\ timerStarts' = timerStarts + 1
    /\ UNCHANGED <<pageDate, timetableData, cycles, display, resolverVars, timeVars,
                   workerVars, rowVars>>

\* timers.displayUpdate: updateDisplay()
DisplayTick ==
    /\ phase = "page"
    /\ Running("displayUpdate")
    /\ display' = updateDisplay(timetableData)
    /\ UNCHANGED <<pageDate, timetableData, cycles, timers, intervals, timerStarts,
                   resolverVars, timeVars, workerVars, rowVars>>

\* timers.dataRefresh: loadAllTimetables()
DataRefreshTick ==
    /\ phase = "page"
    /\ Running("dataRefresh")
    /\ LoadAllTimetables
    /\ UNCHANGED <<resolverVars, timeVars, workerVars, rowVars>>

\* timers.midnightCheck: checkForMidnight()
MidnightTick ==
    /\ phase = "page"
    /\ Running("midnightCheck")
    /\ IF NewDayDetected(timetableData, pageDate) THEN LoadAllTimetables
       ELSE UNCHANGED pageVars
    /\ UNCHANGED <<resolverVars, timeVars, workerVars, rowVars>>

\* the online listener: loadAllTimetables()
OnlineEvent ==
    /\ phase = "page"
    /\ timerStarts > 0
    /\ LoadAllTimetables
    /\ UNCHANGED <<resolverVars, timeVars, workerVars, rowVars>>

\* the clock passes midnight, once or more while the device sleeps
AdvanceClock ==
    /\ phase = "page"
    /\ \E d \in CalendarDates :
        /\ DayIndex(d) > DayIndex(pageDate)
        /\ pageDate' = d
    /\ UNCHANGED <<timetableData, cycles, display, timers, intervals, timerStarts,
                   resolverVars, timeVars, workerVars, rowVars>>

PageNext ==
    \/ InitialLoad
    \/ LoadSettles
    \/ StartAllTimers
    \/ DisplayTick
    \/ DataRefreshTick
    \/ MidnightTick
    \/ OnlineEvent
    \/ AdvanceClock

PageSpec == PageInit /\ [][PageNext]_vars

---------------------------------------------------------------------------
(* Properties of the page *)

\* the loadAllTimetables call of slot s goes on after its await in this step
Settles(s) == cycles[s].pc = "loading" /\ cycles'[s].pc = "done"

\* a loadAllTimetables call is made in this step
Resolves == \E s \in Slots : cycles[s].pc # "loading" /\ cycles'[s].pc = "loading"

\* the file name the configuration gives the line on the date
FileOn(line, d) == determineTimetableFiles(configData, DateOf(d))[line]

\* the line's document of the date has a file name and the server serves it
Loadable(line, d, served) == ~Falsy(FileOn(line, d)) /\ served[line]

\* C23: a network or parse failure, or an unresolvable file name, for one
\* line's timetable document does not prevent the other line's document from
\* being loaded, stored in timetableData and displayed.
C23_LinesLoadIndependently ==
    [][\A s \in Slots, l \in Lines :
          (/\ Settles(s)
           /\ Loadable(l, cycles[s].now, cycles'[s].served.today)
           /\ Loadable(l, Tomorrow(cycles[s].now), cycles'[s].served.tomorrow))
              => /\ timetableData'.today[l] = Document(FileOn(l, cycles[s].now), cycles[s].now)
                 /\ l \in display'.lines
      ]_vars

\* an earlier loadAllTimetables call found no file name for the line
ResolvedNull(line) ==
    \E s \in Slots : cycles[s].pc # "idle" /\ Falsy(FileOn(line, cycles[s].now))

\* C24: an empty season list resolves to a null file name with expired
\* false and expiryDate null, and once a line's resolution has yielded a
\* null file name the page does not resolve that line again on later timer
\* ticks.
C24_NullResolutionIsFinal ==
    [][/\ \A s \in Slots, l \in Lines :
            (cycles'[s].pc # "idle" /\ configData[l] = <<>>)
                => LET files == determineTimetableFiles(configData, DateOf(cycles'[s].now))
                   IN  /\ files[l] = Null
                       /\ (IF l = "sjo" THEN files.sjoExpired ELSE files.cityExpired) = FALSE
                       /\ (IF l = "sjo" THEN files.sjoExpiryDate ELSE files.cityExpiryDate) = Null
       /\ \A l \in Lines : ResolvedNull(l) => ~Resolves
      ]_vars

\* the interval tasks of one kind
TasksOf(tasks, kind) == { t \in tasks : t[1] = kind }

\* C25: after any number of startAllTimers invocations exactly one interval
\* task runs for each of the four kinds, and each invocation cancels the four
\* tasks of the invocation before it.
C25_OneTimerPerKind ==
    [][/\ timerStarts' > 0
            => \A k \in {"displayUpdate", "dataRefresh", "midnightCheck", "versionCheck"} :
                  Cardinality(TasksOf(intervals', k)) = 1
       /\ timerStarts' # timerStarts => intervals' \cap intervals = {}
      ]_vars

\* C25 witness: startAllTimers has run twice and the four tasks of the
\* second run are the ones that run.
C25_Witness ==
    /\ timerStarts = 2
    /\ Cardinality(intervals) = 4
    /\ \A t \in intervals : t[2] > 4

\* all four documents of the call of slot s were loaded
BothLoadsSucceeded(c) ==
    \A l \in Lines :
        /\ Loadable(l, c.now, c.served.today)
        /\ Loadable(l, Tomorrow(c.now), c.served.tomorrow)

\* C29: loadAllTimetables replaces today's and tomorrow's data together and
\* only when both loads succeeded; when a load fails, today's data,
\* tomorrow's data and lastUpdate stay as they were.
C29_ReplacedTogetherOrNotAtAll ==
    [][/\ \A s \in Slots :
            Settles(s) =>
                IF BothLoadsSucceeded(cycles'[s])
                THEN /\ \A l \in Lines :
                          /\ LoadedForDate(timetableData'.today[l]) = cycles[s].now
                          /\ LoadedForDate(timetableData'.tomorrow[l]) = Tomorrow(cycles[s].now)
                     /\ timetableData'.lastUpdate = <<"at", cycles[s].now>>
                ELSE timetableData' = timetableData
       /\ (\A s \in Slots : ~Settles(s)) => timetableData' = timetableData
      ]_vars

\* C29 witness: a call whose loads both succeeded and a call made on a later
\* day of which one load failed have both settled, and the data and
\* lastUpdate are those of the first.
C29_Witness ==
    \E s \in Slots, t \in Slots :
        /\ cycles[s].pc = "done" /\ BothLoadsSucceeded(cycles[s])
        /\ cycles[t].pc = "done" /\ ~BothLoadsSucceeded(cycles[t])
        /\ DayIndex(cycles[t].now) > DayIndex(cycles[s].now)
        /\ timetableData.lastUpdate = <<"at", cycles[s].now>>
        /\ LoadedForDate(timetableData.today.sjo) = cycles[s].now
        /\ LoadedForDate(timetableData.tomorrow.sjo) = Tomorrow(cycles[s].now)

\* the data held as today's is the data loaded for the current day
TodayIsCurrent ==
    \A l \in Lines :
        /\ ~Falsy(timetableData.today[l])
        /\ LoadedForDate(timetableData.today[l]) = pageDate

\* C30: after the calendar day changed the midnight check triggers a reload
\* on every tick until the data held as today's is the data loaded for the
\* current day, also when calls made before and after midnight settle out
\* of order.
C30_MidnightCheckReloadsUntilCurrent ==
    (Running("midnightCheck") /\ ~TodayIsCurrent) => NewDayDetected(timetableData, pageDate)

===========================================================================
